---- MODULE Spec2Model ----
(***************************************************************************)
(* A model of binance/binance.py: the process-wide credential store        *)
(* OPTIONS, the two dispatchers request and signed_request, the call-site  *)
(* wrappers built on them, and format_number.                              *)
(*                                                                         *)
(* Text that the code builds, encodes, sorts or signs (parameter keys and  *)
(* values, paths, query strings, header values) is a sequence of           *)
(* one-character strings, so that urlencode, sorted and the query layout   *)
(* are computed and can be parsed back by the properties.  The content of  *)
(* JSON responses, which the code only moves around, is atomic strings.    *)
(***************************************************************************)
EXTENDS Integers, Sequences, FiniteSets, TLC

VARIABLES
    OPTIONS,    \* the module-level dict OPTIONS (line 28)
    now,        \* the wall clock in milliseconds, int(time.time() * 1000)
    call,       \* the most recent invocation: its name and its arguments
    http,       \* the calls of requests.request made by that invocation
    result,     \* how that invocation ended: a returned value or a raised error
    dispatch,   \* the dispatcher invocations it made, with their arguments
    after       \* the caller's parameter mapping as it is after the invocation

vars == <<OPTIONS, now, call, http, result, dispatch, after>>

-----------------------------------------------------------------------------
(* Bounds of the model.                                                    *)

\* The clock starts at Epoch and is followed for MaxTicks milliseconds.
Epoch == 9
MaxTicks == 1
\* The largest number of entries of a parameter mapping given to a dispatcher.
MaxParams == 2
\* The largest number of rows of a list in a response.
MaxRows == 2
\* Floats are sign * m / 2^e with m <= MaxMantissa.
MaxMantissa == 3

-----------------------------------------------------------------------------
(* Text.                                                                   *)

\* The printable ASCII characters in code point order, from 32 (space); the
\* grave accent (96) is held by a name, which no character equals.
Ascii ==
    <<" ", "!", "\"", "#", "$", "%", "&", "'", "(", ")", "*", "+", ",", "-",
      ".", "/", "0", "1", "2", "3", "4", "5", "6", "7", "8", "9", ":", ";",
      "<", "=", ">", "?", "@", "A", "B", "C", "D", "E", "F", "G", "H", "I",
      "J", "K", "L", "M", "N", "O", "P", "Q", "R", "S", "T", "U", "V", "W",
      "X", "Y", "Z", "[", "\\", "]", "^", "_", "GRAVE", "a", "b", "c", "d", "e",
      "f", "g", "h", "i", "j", "k", "l", "m", "n", "o", "p", "q", "r", "s",
      "t", "u", "v", "w", "x", "y", "z", "{", "|", "}", "~">>

\* ord(c): the code point of a character.
CodePoint ==
    [c \in {Ascii[i] : i \in 1..Len(Ascii)} |->
        31 + (CHOOSE i \in 1..Len(Ascii) : Ascii[i] = c)]
Ord(c) == CodePoint[c]

DecDigit == <<"0", "1", "2", "3", "4", "5", "6", "7", "8", "9">>
HexDigit == <<"0", "1", "2", "3", "4", "5", "6", "7", "8", "9",
              "A", "B", "C", "D", "E", "F">>

\* s < t for two Python strings: by code point, a proper prefix first.
RECURSIVE StrLess(_, _)
StrLess(s, t) ==
    IF t = <<>> THEN FALSE
    ELSE IF s = <<>> THEN TRUE
    ELSE IF s[1] = t[1] THEN StrLess(Tail(s), Tail(t))
    ELSE Ord(s[1]) < Ord(t[1])

\* str(n) for a natural number: its decimal digits.
RECURSIVE NatStr(_)
NatStr(n) ==
    IF n < 10 THEN <<DecDigit[n + 1]>>
    ELSE NatStr(n \div 10) \o <<DecDigit[(n % 10) + 1]>>

\* str(i) for an int.
IntStr(i) == IF i < 0 THEN <<"-">> \o NatStr(-i) ELSE NatStr(i)

-----------------------------------------------------------------------------
(* Python values that occur as arguments.                                  *)

PyStrVal(s) == [t |-> "str", s |-> s]
PyInt(i) == [t |-> "int", i |-> i]
PyBool(b) == [t |-> "bool", b |-> b]
PyNone == [t |-> "NoneType"]
\* A finite float is (-1)^neg * m / 2^e; the others are inf, -inf and nan.
PyFloat(neg, m, e) == [t |-> "float", fin |-> TRUE, neg |-> neg, m |-> m, e |-> e]
PyInf(neg) == [t |-> "float", fin |-> FALSE, nan |-> FALSE, neg |-> neg]
PyNaN == [t |-> "float", fin |-> FALSE, nan |-> TRUE, neg |-> FALSE]

\* str(v) for a value that is not a float.
str(v) ==
    CASE v.t = "str" -> v.s
      [] v.t = "int" -> IntStr(v.i)
      [] v.t = "bool" -> IF v.b THEN <<"T", "r", "u", "e">>
                         ELSE <<"F", "a", "l", "s", "e">>
      [] v.t = "NoneType" -> <<"N", "o", "n", "e">>

-----------------------------------------------------------------------------
(* Python dicts: a mapping is a function; d[k] = v adds or replaces.       *)

EmptyDict == [x \in {} |-> <<>>]
DictSet(d, k, v) == [x \in (DOMAIN d) \cup {k} |-> IF x = k THEN v ELSE d[x]]

\* A parameter mapping keeps its insertion order: a sequence of <<key, value>>
\* with distinct keys.  items() is that sequence.
Keys(params) == {params[i][1] : i \in 1..Len(params)}
IsMapping(params) == Cardinality(Keys(params)) = Len(params)

\* dict.update on an ordered mapping: a present key keeps its place and takes
\* the new value, a new key goes to the end.
RECURSIVE update(_, _)
update(params, kwargs) ==
    IF kwargs = <<>> THEN params
    ELSE LET k == kwargs[1][1]
             v == kwargs[1][2]
             put == IF k \in Keys(params)
                    THEN [i \in 1..Len(params) |->
                            IF params[i][1] = k THEN <<k, v>> ELSE params[i]]
                    ELSE Append(params, <<k, v>>)
         IN update(put, Tail(kwargs))

-----------------------------------------------------------------------------
(* urllib.parse.urlencode, sorted, hmac.                                   *)

\* The characters quote_plus leaves as they are: letters, digits and _.-~
IsSafe(c) ==
    \/ Ord(c) >= Ord("0") /\ Ord(c) <= Ord("9")
    \/ Ord(c) >= Ord("A") /\ Ord(c) <= Ord("Z")
    \/ Ord(c) >= Ord("a") /\ Ord(c) <= Ord("z")
    \/ c \in {"_", ".", "-", "~"}

\* quote_plus of one character: a space is "+", an unsafe one is %XX.
QuoteChar(c) ==
    IF IsSafe(c) THEN <<c>>
    ELSE IF c = " " THEN <<"+">>
    ELSE <<"%", HexDigit[(Ord(c) \div 16) + 1], HexDigit[(Ord(c) % 16) + 1]>>

RECURSIVE quote_plus(_)
quote_plus(s) ==
    IF s = <<>> THEN <<>> ELSE QuoteChar(s[1]) \o quote_plus(Tail(s))

\* urlencode(items): quote_plus(k) = quote_plus(str(v)) of each item, joined
\* by "&"; the keys are strings.
RECURSIVE urlencode(_)
urlencode(items) ==
    IF items = <<>> THEN <<>>
    ELSE LET field == quote_plus(items[1][1]) \o <<"=">>
                        \o quote_plus(str(items[1][2]))
         IN IF Len(items) = 1 THEN field
            ELSE field \o <<"&">> \o urlencode(Tail(items))

\* (k1, v1) < (k2, v2) for the items of one dict: the keys differ, so the
\* keys decide.
ItemLess(a, b) == StrLess(a[1], b[1])

RECURSIVE Insert(_, _)
Insert(item, s) ==
    IF s = <<>> THEN <<item>>
    ELSE IF ItemLess(item, s[1]) THEN <<item>> \o s
    ELSE <<s[1]>> \o Insert(item, Tail(s))

\* Variant: the items in the order the mapping yields them (no sorted()).
unsorted(items) == items

\* sorted(params.items()): a new list, ascending.
RECURSIVE sorted(_)
sorted(items) ==
    IF items = <<>> THEN <<>> ELSE Insert(items[1], sorted(Tail(items)))

\* hmac.new(secret, message, sha256).hexdigest(): HMAC-SHA256 is taken as an
\* ideal keyed hash, one opaque symbol that stands for 64 hex digits and is
\* equal for equal (key, message) only.
hexdigest(secret, message) == <<ToString(<<"hmac-sha256", secret, message>>)>>

-----------------------------------------------------------------------------
(* The network and the two dispatchers.                                    *)

ENDPOINT ==
    <<"h", "t", "t", "p", "s", ":", "/", "/", "a", "p", "i", ".", "b", "i",
      "n", "a", "n", "c", "e", ".", "c", "o", "m">>

GET == <<"G", "E", "T">>
POST == <<"P", "O", "S", "T">>
DELETE == <<"D", "E", "L", "E", "T", "E">>

\* What requests.request and resp.json() can do: fail in transport, deliver
\* a body that is not JSON, or deliver JSON data.
TransportFailure == [kind |-> "transport_error"]
NotJson == [kind |-> "not_json"]
Json(data) == [kind |-> "json", data |-> data]
NoResponse == [kind |-> "none"]

\* JSON data is a list or an object; 'msg' in data.
JsonList(items) == [type |-> "list", items |-> items]
JsonDict(d) == [type |-> "dict", d |-> d]
HasMsg(data) ==
    IF data.type = "dict" THEN "msg" \in DOMAIN data.d
    ELSE \E i \in 1..Len(data.items) : data.items[i] = "msg"

Return(value) == [kind |-> "return", value |-> value]
\* An exception: its class and the parts of its message.
Raise(error, text) == [kind |-> "raise", error |-> error, text |-> text]

\* resp = requests.request(...); data = resp.json(); return data
json(resp) ==
    CASE resp.kind = "transport_error" -> Raise("ConnectionError", <<"">>)
      [] resp.kind = "not_json" -> Raise("JSONDecodeError", <<"">>)
      [] resp.kind = "json" -> Return(resp.data)

\* Variant: request() sends a second time when the first attempt has not
\* produced JSON.
request_with_retry(method, path, params, resp) ==
    LET sent == [method |-> method, url |-> ENDPOINT \o path,
                 params |-> params, headers |-> <<>>]
    IN [http |-> IF resp.kind = "json" THEN <<sent>> ELSE <<sent, sent>>,
        dispatch |-> << [fn |-> "request", method |-> method, path |-> path,
                         params |-> params] >>,
        after |-> params,
        result |-> json(resp)]

\* request(method, path, params=None).  None and {} are both the empty
\* mapping: requests sends no query for either.
request(method, path, params, resp) ==
    [http |-> << [method |-> method, url |-> ENDPOINT \o path,
                  params |-> params, headers |-> <<>>] >>,
     dispatch |-> << [fn |-> "request", method |-> method, path |-> path,
                      params |-> params] >>,
     after |-> params,
     result |-> json(resp)]

\* Variant: the test of OPTIONS left out of signed_request.
CredentialsNotTested(opts) == FALSE

\* if "apiKey" not in OPTIONS or "secret" not in OPTIONS
MissingCredentials(opts) ==
    "apiKey" \notin DOMAIN opts \/ "secret" \notin DOMAIN opts

\* The text that is signed: the sorted encoded parameters and the timestamp.
SignedMessage(params, ts) ==
    urlencode(sorted(params))
        \o <<"&", "t", "i", "m", "e", "s", "t", "a", "m", "p", "=">> \o NatStr(ts)

\* Variant: the digest taken before the timestamp is appended.
SignedQueryTimestampUnsigned(secret, params, ts) ==
    LET query == urlencode(sorted(params))
    IN query \o <<"&", "t", "i", "m", "e", "s", "t", "a", "m", "p", "=">>
             \o NatStr(ts)
             \o <<"&", "s", "i", "g", "n", "a", "t", "u", "r", "e", "=">>
             \o hexdigest(secret, query)

\* query += "&signature={}".format(signature)
SignedQuery(secret, params, ts) ==
    LET query == SignedMessage(params, ts)
    IN query \o <<"&", "s", "i", "g", "n", "a", "t", "u", "r", "e", "=">>
             \o hexdigest(secret, query)

\* Variant: the secret sent where the key belongs.
SignedHeadersWithSecret(opts) ==
    << <<(<<"X", "-", "M", "B", "X", "-", "A", "P", "I", "K", "E", "Y">>),
         opts["secret"]>> >>

\* headers={"X-MBX-APIKEY": OPTIONS["apiKey"]}
SignedHeaders(opts) ==
    << <<(<<"X", "-", "M", "B", "X", "-", "A", "P", "I", "K", "E", "Y">>),
         opts["apiKey"]>> >>

\* Variant: params["timestamp"] = ... written into the caller's mapping.
ParamsWithTimestamp(params, ts) ==
    Append(params, <<(<<"t", "i", "m", "e", "s", "t", "a", "m", "p">>),
                     [t |-> "int", i |-> ts]>>)

\* The caller's mapping after signed_request: sorted() and urlencode() build
\* new objects, params itself is not written.
ParamsAfterSigning(params, ts) == params

\* signed_request(method, path, params) called at time ts.
signed_request(opts, method, path, params, ts, resp) ==
    LET invoked == << [fn |-> "signed_request", method |-> method,
                       path |-> path, params |-> params, ts |-> ts] >>
    IN IF MissingCredentials(opts)
       THEN [http |-> <<>>, dispatch |-> invoked, after |-> params,
             result |->
                Raise("ValueError", <<"Api key and secret must be set">>)]
       ELSE IF "secret" \notin DOMAIN opts \/ "apiKey" \notin DOMAIN opts
       THEN [http |-> <<>>, dispatch |-> invoked, after |-> params,
             result |-> Raise("KeyError", <<"">>)]
       ELSE [http |-> << [method |-> method,
                          url |-> ENDPOINT \o path \o <<"?">>
                                    \o SignedQuery(opts["secret"], params, ts),
                          params |-> <<>>,
                          headers |-> SignedHeaders(opts)] >>,
             dispatch |-> invoked,
             after |-> ParamsAfterSigning(params, ts),
             result |-> json(resp)]

-----------------------------------------------------------------------------
(* format_number.                                                          *)

\* The 8 of "{:.8f}".
Decimals == 8

\* Variant: the fraction printed without its leading and trailing zeros, as
\* str(round(x, 8)) prints it.
FixedPointUnpadded(x) ==
    IF ~x.fin
    THEN IF x.nan THEN <<"n", "a", "n">>
         ELSE IF x.neg THEN <<"-", "i", "n", "f">> ELSE <<"i", "n", "f">>
    ELSE LET scaled == x.m * 10^Decimals
             q == scaled \div (2^x.e)
         IN (IF x.neg THEN <<"-">> ELSE <<>>)
                \o NatStr(q \div 10^Decimals) \o <<".">>
                \o NatStr(q % 10^Decimals)

RECURSIVE ZeroPad(_, _)
ZeroPad(digits, width) ==
    IF Len(digits) >= width THEN digits ELSE ZeroPad(<<"0">> \o digits, width)

\* "{:.8f}".format(x): the exact value m / 2^e rounded to 8 decimals, ties to
\* the even digit, with the sign kept; inf and nan have no digits.
FixedPoint(x) ==
    IF ~x.fin
    THEN IF x.nan THEN <<"n", "a", "n">>
         ELSE IF x.neg THEN <<"-", "i", "n", "f">> ELSE <<"i", "n", "f">>
    ELSE LET scaled == x.m * 10^Decimals
             den == 2^x.e
             q == scaled \div den
             r == scaled % den
             rounded == IF 2 * r > den \/ (2 * r = den /\ q % 2 = 1)
                        THEN q + 1 ELSE q
         IN (IF x.neg THEN <<"-">> ELSE <<>>)
                \o NatStr(rounded \div 10^Decimals) \o <<".">>
                \o ZeroPad(NatStr(rounded % 10^Decimals), Decimals)

format_number(number) ==
    IF number.t = "float" THEN FixedPoint(number) ELSE str(number)

-----------------------------------------------------------------------------
(* The endpoints.                                                          *)

PathAllPrices ==
    <<"/", "a", "p", "i", "/", "v", "1", "/", "t", "i", "c", "k", "e", "r",
      "/", "a", "l", "l", "P", "r", "i", "c", "e", "s">>
PathAllBookTickers ==
    <<"/", "a", "p", "i", "/", "v", "1", "/", "t", "i", "c", "k", "e", "r",
      "/", "a", "l", "l", "B", "o", "o", "k", "T", "i", "c", "k", "e", "r", "s">>
PathDepth ==
    <<"/", "a", "p", "i", "/", "v", "1", "/", "d", "e", "p", "t", "h">>
PathKlines ==
    <<"/", "a", "p", "i", "/", "v", "1", "/", "k", "l", "i", "n", "e", "s">>
PathAccount ==
    <<"/", "a", "p", "i", "/", "v", "3", "/", "a", "c", "c", "o", "u", "n", "t">>
PathMarginAccount ==
    <<"/", "s", "a", "p", "i", "/", "v", "1", "/", "m", "a", "r", "g", "i", "n",
      "/", "a", "c", "c", "o", "u", "n", "t">>
PathIsolatedAccount ==
    <<"/", "s", "a", "p", "i", "/", "v", "1", "/", "m", "a", "r", "g", "i", "n",
      "/", "i", "s", "o", "l", "a", "t", "e", "d", "/", "a", "c", "c", "o", "u",
      "n", "t">>
PathAllPairs ==
    <<"/", "s", "a", "p", "i", "/", "v", "1", "/", "m", "a", "r", "g", "i", "n",
      "/", "a", "l", "l", "P", "a", "i", "r", "s">>
PathExchangeInfo ==
    <<"/", "a", "p", "i", "/", "v", "3", "/", "e", "x", "c", "h", "a", "n", "g",
      "e", "I", "n", "f", "o">>
PathOrder ==
    <<"/", "a", "p", "i", "/", "v", "3", "/", "o", "r", "d", "e", "r">>
PathOrderTest ==
    <<"/", "a", "p", "i", "/", "v", "3", "/", "o", "r", "d", "e", "r", "/", "t",
      "e", "s", "t">>
PathLoan ==
    <<"/", "s", "a", "p", "i", "/", "v", "1", "/", "m", "a", "r", "g", "i", "n",
      "/", "l", "o", "a", "n">>
PathRepay ==
    <<"/", "s", "a", "p", "i", "/", "v", "1", "/", "m", "a", "r", "g", "i", "n",
      "/", "r", "e", "p", "a", "y">>
PathMarginOrder ==
    <<"/", "s", "a", "p", "i", "/", "v", "1", "/", "m", "a", "r", "g", "i", "n",
      "/", "o", "r", "d", "e", "r">>
PathOpenOrders ==
    <<"/", "a", "p", "i", "/", "v", "3", "/", "o", "p", "e", "n", "O", "r", "d",
      "e", "r", "s">>
PathAllOrders ==
    <<"/", "a", "p", "i", "/", "v", "3", "/", "a", "l", "l", "O", "r", "d", "e",
      "r", "s">>
PathMyTrades ==
    <<"/", "a", "p", "i", "/", "v", "3", "/", "m", "y", "T", "r", "a", "d", "e",
      "s">>

\* The parameter names the wrappers write.
K_symbol == <<"s", "y", "m", "b", "o", "l">>
K_side == <<"s", "i", "d", "e">>
K_type == <<"t", "y", "p", "e">>
K_quantity == <<"q", "u", "a", "n", "t", "i", "t", "y">>
K_interval == <<"i", "n", "t", "e", "r", "v", "a", "l">>
K_asset == <<"a", "s", "s", "e", "t">>
K_amount == <<"a", "m", "o", "u", "n", "t">>
K_isIsolated == <<"i", "s", "I", "s", "o", "l", "a", "t", "e", "d">>

LIMIT == <<"L", "I", "M", "I", "T">>
MARKET == <<"M", "A", "R", "K", "E", "T">>
BUY == <<"B", "U", "Y">>
SELL == <<"S", "E", "L", "L">>

-----------------------------------------------------------------------------
(* The public call-sites.  A wrapper's outcome is the dispatcher's, with   *)
(* the returned data reshaped; a raised error passes through.              *)

Front(s) == SubSeq(s, 1, Len(s) - 1)
Last(s) == s[Len(s)]

\* Variant: the first row of a symbol is kept.
RECURSIVE PriceMapFirstWins(_)
PriceMapFirstWins(rows) ==
    IF rows = <<>> THEN EmptyDict
    ELSE DictSet(PriceMapFirstWins(Tail(rows)), rows[1].symbol, rows[1].price)

\* {d["symbol"]: d["price"] for d in data}: a later row replaces an earlier.
RECURSIVE PriceMap(_)
PriceMap(rows) ==
    IF rows = <<>> THEN EmptyDict
    ELSE DictSet(PriceMap(Front(rows)), Last(rows).symbol, Last(rows).price)

\* Iterating a dict yields its keys, which are strings: d["symbol"] on one
\* is a TypeError.  An empty dict yields nothing.
OverRows(data, reshaped) ==
    IF data.type = "list" THEN Return(reshaped)
    ELSE IF DOMAIN data.d = {} THEN Return(EmptyDict)
    ELSE Raise("TypeError", <<"string indices must be integers">>)

prices(resp) ==
    LET out == request(GET, PathAllPrices, <<>>, resp)
    IN IF out.result.kind = "raise" THEN out
       ELSE [out EXCEPT !.result =
                OverRows(out.result.value, PriceMap(out.result.value.items))]

RECURSIVE TickerMap(_)
TickerMap(rows) ==
    IF rows = <<>> THEN EmptyDict
    ELSE DictSet(TickerMap(Front(rows)), Last(rows).symbol,
                 [bid |-> Last(rows).bidPrice, ask |-> Last(rows).askPrice,
                  bidQty |-> Last(rows).bidQty, askQty |-> Last(rows).askQty])

tickers(resp) ==
    LET out == request(GET, PathAllBookTickers, <<>>, resp)
    IN IF out.result.kind = "raise" THEN out
       ELSE [out EXCEPT !.result =
                OverRows(out.result.value, TickerMap(out.result.value.items))]

\* {px: qty for px, qty, in levels}
RECURSIVE LevelMap(_)
LevelMap(levels) ==
    IF levels = <<>> THEN EmptyDict
    ELSE DictSet(LevelMap(Front(levels)), Last(levels)[1], Last(levels)[2])

\* Variant: the two sides taken from each other's list.
DepthBookSwapped(data) ==
    [bids |-> LevelMap(data.d.asks), asks |-> LevelMap(data.d.bids)]

\* The two mappings depth returns, from data["bids"] and data["asks"].
DepthBook(data) ==
    [bids |-> LevelMap(data.d.bids), asks |-> LevelMap(data.d.asks)]

depth(symbol, kwargs, resp) ==
    LET params == update(<< <<K_symbol, PyStrVal(symbol)>> >>, kwargs)
        out == request(GET, PathDepth, params, resp)
        data == out.result.value
    IN IF out.result.kind = "raise" THEN out
       ELSE IF data.type = "list"
       THEN [out EXCEPT !.result =
                Raise("TypeError", <<"list indices must be integers">>)]
       ELSE IF ~({"bids", "asks"} \subseteq DOMAIN data.d)
       THEN [out EXCEPT !.result = Raise("KeyError", <<"bids">>)]
       ELSE [out EXCEPT !.result = Return(DepthBook(data))]

Kline(d) ==
    [openTime |-> d[1], open |-> d[2], high |-> d[3], low |-> d[4],
     close |-> d[5], volume |-> d[6], closeTime |-> d[7],
     quoteVolume |-> d[8], numTrades |-> d[9]]

\* d[0] .. d[8] of a key of an error payload runs off the end of the string.
klines(symbol, interval, kwargs, resp) ==
    LET params == update(<< <<K_symbol, PyStrVal(symbol)>>,
                            <<K_interval, PyStrVal(interval)>> >>, kwargs)
        out == request(GET, PathKlines, params, resp)
        data == out.result.value
    IN IF out.result.kind = "raise" THEN out
       ELSE IF data.type = "list"
       THEN [out EXCEPT !.result =
                Return([i \in 1..Len(data.items) |-> Kline(data.items[i])])]
       ELSE IF DOMAIN data.d = {}
       THEN [out EXCEPT !.result = Return(<<>>)]
       ELSE [out EXCEPT !.result =
                Raise("IndexError", <<"string index out of range">>)]

\* Variant: the balance call-sites without their test of 'msg'.
Unchecked(data, field) ==
    IF data.type = "list"
    THEN Raise("AttributeError", <<"'list' object has no attribute 'get'">>)
    ELSE Return(IF field \in DOMAIN data.d THEN data.d[field] ELSE <<>>)

\* if 'msg' in data: raise ValueError("Error from exchange: {}".format(...))
\* and then data.get(field, []), which a list does not have.
Checked(data, field) ==
    IF HasMsg(data)
    THEN IF data.type = "dict"
         THEN Raise("ValueError", <<"Error from exchange: ", data.d.msg>>)
         ELSE Raise("TypeError", <<"list indices must be integers">>)
    ELSE IF data.type = "list"
    THEN Raise("AttributeError", <<"'list' object has no attribute 'get'">>)
    ELSE Return(IF field \in DOMAIN data.d THEN data.d[field] ELSE <<>>)

RECURSIVE BalanceMap(_)
BalanceMap(rows) ==
    IF rows = <<>> THEN EmptyDict
    ELSE DictSet(BalanceMap(Front(rows)), Last(rows).asset,
                 [free |-> Last(rows).free, locked |-> Last(rows).locked])

balances(opts, ts, resp) ==
    LET out == signed_request(opts, GET, PathAccount, <<>>, ts, resp)
        rows == Checked(out.result.value, "balances")
    IN IF out.result.kind = "raise" THEN out
       ELSE IF rows.kind = "raise" THEN [out EXCEPT !.result = rows]
       ELSE [out EXCEPT !.result = Return(BalanceMap(rows.value))]

RECURSIVE NetMap(_)
NetMap(rows) ==
    IF rows = <<>> THEN EmptyDict
    ELSE DictSet(NetMap(Front(rows)), Last(rows).asset,
                 [net |-> Last(rows).netAsset])

margin_balances(opts, ts, resp) ==
    LET out == signed_request(opts, GET, PathMarginAccount, <<>>, ts, resp)
        rows == Checked(out.result.value, "userAssets")
    IN IF out.result.kind = "raise" THEN out
       ELSE IF rows.kind = "raise" THEN [out EXCEPT !.result = rows]
       ELSE [out EXCEPT !.result = Return(NetMap(rows.value))]

RECURSIVE IsolatedMap(_)
IsolatedMap(rows) ==
    IF rows = <<>> THEN EmptyDict
    ELSE DictSet(IsolatedMap(Front(rows)), Last(rows).symbol,
                 DictSet(EmptyDict, Last(rows).quoteAsset.asset,
                         Last(rows).quoteAsset.netAsset))

isolated_balances(opts, ts, resp) ==
    LET out == signed_request(opts, GET, PathIsolatedAccount, <<>>, ts, resp)
        rows == Checked(out.result.value, "assets")
    IN IF out.result.kind = "raise" THEN out
       ELSE IF rows.kind = "raise" THEN [out EXCEPT !.result = rows]
       ELSE [out EXCEPT !.result = Return(IsolatedMap(rows.value))]

\* [key['base'] + key['quote'] for key in data]
get_cross_margin_pairs(opts, ts, resp) ==
    LET out == signed_request(opts, GET, PathAllPairs, <<>>, ts, resp)
        data == out.result.value
    IN IF out.result.kind = "raise" THEN out
       ELSE [out EXCEPT !.result =
                IF data.type = "list"
                THEN Return([i \in 1..Len(data.items) |->
                                data.items[i].base \o data.items[i].quote])
                ELSE IF DOMAIN data.d = {} THEN Return(<<>>)
                ELSE Raise("TypeError",
                           <<"string indices must be integers">>)]

\* {item['symbol']: item for item in data['symbols']}
RECURSIVE SymbolMap(_)
SymbolMap(rows) ==
    IF rows = <<>> THEN EmptyDict
    ELSE DictSet(SymbolMap(Front(rows)), Last(rows).symbol, Last(rows))

exchange_info(resp) ==
    LET out == request(GET, PathExchangeInfo, <<>>, resp)
        data == out.result.value
    IN IF out.result.kind = "raise" THEN out
       ELSE IF data.type = "list"
       THEN [out EXCEPT !.result =
                Raise("TypeError", <<"list indices must be integers">>)]
       ELSE IF "symbols" \notin DOMAIN data.d
       THEN [out EXCEPT !.result = Raise("KeyError", <<"symbols">>)]
       ELSE [out EXCEPT !.result = Return(SymbolMap(data.d.symbols))]

\* The keys of the dict exchange_info built, in the order they were first
\* inserted, that allow margin trading.
RECURSIVE MarginPairs(_, _, _)
MarginPairs(rows, info, seen) ==
    IF rows = <<>> THEN <<>>
    ELSE LET sym == rows[1].symbol
         IN IF sym \in seen THEN MarginPairs(Tail(rows), info, seen)
            ELSE (IF info[sym].isMarginTradingAllowed THEN <<sym>> ELSE <<>>)
                    \o MarginPairs(Tail(rows), info, seen \cup {sym})

get_isolated_margin_pairs(resp) ==
    LET out == exchange_info(resp)
    IN IF out.result.kind = "raise" THEN out
       ELSE [out EXCEPT !.result =
                Return(MarginPairs(resp.data.d.symbols, out.result.value, {}))]

\* Variant: the test flag is not looked at and the order goes to the live path.
spot_always_live(opts, symbol, side, quantity, order_type, test, kwargs, ts, resp) ==
    LET params == update(<< <<K_symbol, PyStrVal(symbol)>>,
                            <<K_side, PyStrVal(side)>>,
                            <<K_type, PyStrVal(order_type)>>,
                            <<K_quantity, PyStrVal(format_number(quantity))>> >>,
                         kwargs)
    IN signed_request(opts, POST, PathOrder, params, ts, resp)

\* spot_order: the MARKET branch and the other branch build the same mapping.
spot_order(opts, symbol, side, quantity, order_type, test, kwargs, ts, resp) ==
    LET params == update(<< <<K_symbol, PyStrVal(symbol)>>,
                            <<K_side, PyStrVal(side)>>,
                            <<K_type, PyStrVal(order_type)>>,
                            <<K_quantity, PyStrVal(format_number(quantity))>> >>,
                         kwargs)
        path == IF test THEN PathOrderTest ELSE PathOrder
    IN signed_request(opts, POST, path, params, ts, resp)

margin_borrow(opts, symbol, quantity, isolated, asset, ts, resp) ==
    LET params == << <<K_asset, asset>>,
                     <<K_amount, PyStrVal(format_number(quantity))>>,
                     <<K_isIsolated, PyBool(isolated)>>,
                     <<K_symbol, PyStrVal(symbol)>> >>
    IN signed_request(opts, POST, PathLoan, params, ts, resp)

margin_repay(opts, symbol, quantity, isolated, asset, ts, resp) ==
    LET params == << <<K_symbol, PyStrVal(symbol)>>,
                     <<K_amount, PyStrVal(format_number(quantity))>>,
                     <<K_isIsolated, PyBool(isolated)>>,
                     <<K_asset, asset>> >>
    IN signed_request(opts, POST, PathRepay, params, ts, resp)

margin_order(opts, symbol, side, quantity, order_type, isolated, kwargs, ts, resp) ==
    LET params == update(<< <<K_symbol, PyStrVal(symbol)>>,
                            <<K_side, PyStrVal(side)>>,
                            <<K_type, PyStrVal(order_type)>>,
                            <<K_quantity, PyStrVal(format_number(quantity))>>,
                            <<K_isIsolated, PyBool(isolated)>> >>,
                         kwargs)
    IN signed_request(opts, POST, PathMarginOrder, params, ts, resp)

\* params = {"symbol": symbol}; params.update(kwargs)
SymbolParams(symbol, kwargs) ==
    update(<< <<K_symbol, PyStrVal(symbol)>> >>, kwargs)

order_status(opts, symbol, kwargs, ts, resp) ==
    signed_request(opts, GET, PathOrder, SymbolParams(symbol, kwargs), ts, resp)

cancel(opts, symbol, kwargs, ts, resp) ==
    signed_request(opts, DELETE, PathOrder, SymbolParams(symbol, kwargs), ts, resp)

open_orders(opts, symbol, kwargs, ts, resp) ==
    signed_request(opts, GET, PathOpenOrders, SymbolParams(symbol, kwargs), ts, resp)

all_orders(opts, symbol, kwargs, ts, resp) ==
    signed_request(opts, GET, PathAllOrders, SymbolParams(symbol, kwargs), ts, resp)

my_trades(opts, symbol, kwargs, ts, resp) ==
    signed_request(opts, GET, PathMyTrades, SymbolParams(symbol, kwargs), ts, resp)

-----------------------------------------------------------------------------
(* The inputs the operations are called with.                              *)

\* The (api_key, secret) pairs set is called with.
Credentials == {<< <<"k", "1">>, <<"s", "1">> >>, << <<"k", "2">>, <<"s", "2">> >>}
Secrets == {c[2] : c \in Credentials}

\* Entries of a parameter mapping: keys that differ in case, a key that is a
\* prefix of another, and a value that needs encoding.
ParamPool ==
    { <<(<<"b">>), PyStrVal(<<"x", "&", "y", "=", " ">>)>>,
      <<(<<"B">>), PyInt(5)>>,
      <<(<<"a", "b">>), PyBool(TRUE)>> }

\* The mappings of at most n entries, in every insertion order.
Mappings(n) ==
    {m \in UNION {[1..len -> ParamPool] : len \in 0..n} : IsMapping(m)}
AllMappings == Mappings(MaxParams)

\* The extra options (**kwargs) the wrappers are called with.
Options == {<<>>, << <<(<<"l", "i", "m", "i", "t">>), PyInt(5)>> >>}

BTCUSDT == <<"B", "T", "C", "U", "S", "D", "T">>
Quantities == {PyFloat(FALSE, 1, 0), PyInt(5), PyStrVal(<<"0", ".", "1">>)}
Assets == {PyNone, PyStrVal(<<"B", "T", "C">>)}

\* The numbers format_number is called with.
Exponents == {0, 1, 3, 9, 10}
Floats ==
    {PyFloat(neg, m, e) : neg \in BOOLEAN, m \in 0..MaxMantissa, e \in Exponents}
        \cup {PyInf(FALSE), PyInf(TRUE), PyNaN}
Numbers ==
    Floats \cup {PyInt(i) : i \in {-12, 0, 5, 10}}
           \cup {PyStrVal(<<"0", ".", "1">>), PyStrVal(<<"1", "e", "-", "7">>)}

\* Responses.
ErrorPayload ==
    JsonDict([code |-> -2015, msg |-> "Invalid API-key, IP, or permissions"])
OrderAck == JsonDict([orderId |-> 28, status |-> "NEW"])
Failures == {TransportFailure, NotJson, Json(ErrorPayload)}

\* The lists of at most n rows drawn from a pool.
Lists(pool, n) == UNION {[1..len -> pool] : len \in 0..n}

PriceRows ==
    { [symbol |-> "BTCUSDT", price |-> "1.0"],
      [symbol |-> "BTCUSDT", price |-> "2.0"],
      [symbol |-> "ETHBTC", price |-> "1.0"] }
PriceLists == {JsonList(rows) : rows \in Lists(PriceRows, MaxRows)}

TickerList ==
    JsonList(<< [symbol |-> "BTCUSDT", bidPrice |-> "1.0", bidQty |-> "5",
                 askPrice |-> "2.0", askQty |-> "7"] >>)

\* Order books of at most MaxRows levels in all: two bid prices, and an ask
\* price that is also a bid price and is listed with two quantities.
BidLevels == {<<"1.0", "5">>, <<"2.0", "7">>}
AskLevels == {<<"2.0", "5">>, <<"2.0", "9">>}
Books ==
    {JsonDict([lastUpdateId |-> "1027024", bids |-> ba[1], asks |-> ba[2]]) :
        ba \in {x \in Lists(BidLevels, MaxRows) \X Lists(AskLevels, MaxRows) :
                    Len(x[1]) + Len(x[2]) <= MaxRows}}

KlineList ==
    JsonList(<< <<"1499040000000", "0.01", "0.8", "0.01", "0.02", "148976.1",
                  "1499644799999", "2434.1", "308", "1756.8", "28.4", "0">> >>)

AccountPayloads ==
    { JsonDict([balances |-> << [asset |-> "BTC", free |-> "1.0",
                                 locked |-> "0.0"] >>]),
      JsonDict([makerCommission |-> "15"]) }
MarginAccountPayloads ==
    { JsonDict([userAssets |-> << [asset |-> "BTC", netAsset |-> "1.0"] >>]) }
IsolatedAccountPayloads ==
    { JsonDict([assets |-> << [symbol |-> "BTCUSDT",
                               quoteAsset |-> [asset |-> "USDT",
                                               netAsset |-> "3.0"]] >>]) }
PairLists == {JsonList(<< [base |-> "BTC", quote |-> "USDT"] >>)}
ExchangeInfoPayloads ==
    { JsonDict([symbols |->
        << [symbol |-> "BTCUSDT", isMarginTradingAllowed |-> TRUE],
           [symbol |-> "ETHBTC", isMarginTradingAllowed |-> FALSE] >>]) }


\* The responses each endpoint is given.
OrderResponses == Failures \cup {Json(OrderAck)}
PriceResponses == Failures \cup {Json(d) : d \in PriceLists}
TickerResponses == Failures \cup {Json(TickerList)}
DepthResponses == Failures \cup {Json(d) : d \in Books}
KlineResponses == Failures \cup {Json(KlineList)}
AccountResponses == Failures \cup {Json(d) : d \in AccountPayloads}
MarginAccountResponses == Failures \cup {Json(d) : d \in MarginAccountPayloads}
IsolatedAccountResponses == Failures \cup {Json(d) : d \in IsolatedAccountPayloads}
PairResponses == Failures \cup {Json(d) : d \in PairLists}
ExchangeInfoResponses == Failures \cup {Json(d) : d \in ExchangeInfoPayloads}
AckOrError == {Json(OrderAck), Json(ErrorPayload)}
OrderListResponses ==
    {TransportFailure, Json(ErrorPayload), Json(JsonList(<<>>))}

\* The endpoints the dispatchers are called on directly.
DirectCalls == {<<GET, PathAccount>>, <<POST, PathOrder>>}

-----------------------------------------------------------------------------
(* The state machine: one action per function of the module.               *)

Init ==
    /\ OPTIONS = EmptyDict
    /\ now = Epoch
    /\ call = [op |-> "import", args |-> <<>>, resp |-> NoResponse]
    /\ http = <<>>
    /\ dispatch = <<>>
    /\ after = <<>>
    /\ result = Return(PyNone)

\* What one invocation leaves behind: its arguments, the network's answer,
\* and the outcome out that the function computed.
Invoke(op, args, resp, out) ==
    /\ call' = [op |-> op, args |-> args, resp |-> resp]
    /\ http' = out.http
    /\ dispatch' = out.dispatch
    /\ after' = out.after
    /\ result' = out.result

\* time.time() advances.
Tick ==
    /\ now < Epoch + MaxTicks
    /\ now' = now + 1
    /\ UNCHANGED <<OPTIONS, call, http, result, dispatch, after>>

\* OPTIONS["apiKey"] = api_key; OPTIONS["secret"] = secret
StoreCredentials(opts, api_key, secret) ==
    DictSet(DictSet(opts, "apiKey", api_key), "secret", secret)

Set ==
    \E c \in Credentials :
        /\ OPTIONS' = StoreCredentials(OPTIONS, c[1], c[2])
        /\ Invoke("set", [api_key |-> c[1], secret |-> c[2]], NoResponse,
                  [http |-> <<>>, dispatch |-> <<>>, after |-> <<>>,
                   result |-> Return(PyNone)])
        /\ UNCHANGED now

Request ==
    \E mp \in DirectCalls, params \in Options,
       resp \in OrderResponses :
        /\ Invoke("request", [method |-> mp[1], path |-> mp[2], params |-> params],
                  resp, request(mp[1], mp[2], params, resp))
        /\ UNCHANGED <<OPTIONS, now>>

SignedRequest ==
    \E mp \in DirectCalls, params \in AllMappings,
       resp \in OrderResponses :
        /\ Invoke("signed_request",
                  [method |-> mp[1], path |-> mp[2], params |-> params], resp,
                  signed_request(OPTIONS, mp[1], mp[2], params, now, resp))
        /\ UNCHANGED <<OPTIONS, now>>

FormatNumber ==
    \E number \in Numbers :
        /\ Invoke("format_number", [number |-> number], NoResponse,
                  [http |-> <<>>, dispatch |-> <<>>, after |-> <<>>,
                   result |-> Return(format_number(number))])
        /\ UNCHANGED <<OPTIONS, now>>

Prices ==
    \E resp \in PriceResponses :
        /\ Invoke("prices", <<>>, resp, prices(resp))
        /\ UNCHANGED <<OPTIONS, now>>

Tickers ==
    \E resp \in TickerResponses :
        /\ Invoke("tickers", <<>>, resp, tickers(resp))
        /\ UNCHANGED <<OPTIONS, now>>

Depth ==
    \E kwargs \in Options, resp \in DepthResponses :
        /\ Invoke("depth", [symbol |-> BTCUSDT, kwargs |-> kwargs], resp,
                  depth(BTCUSDT, kwargs, resp))
        /\ UNCHANGED <<OPTIONS, now>>

Klines ==
    \E kwargs \in Options, resp \in KlineResponses :
        /\ Invoke("klines",
                  [symbol |-> BTCUSDT, interval |-> <<"1", "m">>, kwargs |-> kwargs],
                  resp, klines(BTCUSDT, <<"1", "m">>, kwargs, resp))
        /\ UNCHANGED <<OPTIONS, now>>

Balances ==
    \E resp \in AccountResponses :
        /\ Invoke("balances", <<>>, resp, balances(OPTIONS, now, resp))
        /\ UNCHANGED <<OPTIONS, now>>

MarginBalances ==
    \E resp \in MarginAccountResponses :
        /\ Invoke("margin_balances", <<>>, resp,
                  margin_balances(OPTIONS, now, resp))
        /\ UNCHANGED <<OPTIONS, now>>

IsolatedBalances ==
    \E resp \in IsolatedAccountResponses :
        /\ Invoke("isolated_balances", <<>>, resp,
                  isolated_balances(OPTIONS, now, resp))
        /\ UNCHANGED <<OPTIONS, now>>

GetCrossMarginPairs ==
    \E resp \in PairResponses :
        /\ Invoke("get_cross_margin_pairs", <<>>, resp,
                  get_cross_margin_pairs(OPTIONS, now, resp))
        /\ UNCHANGED <<OPTIONS, now>>

ExchangeInfo ==
    \E resp \in ExchangeInfoResponses :
        /\ Invoke("exchange_info", <<>>, resp, exchange_info(resp))
        /\ UNCHANGED <<OPTIONS, now>>

GetIsolatedMarginPairs ==
    \E resp \in ExchangeInfoResponses :
        /\ Invoke("get_isolated_margin_pairs", <<>>, resp,
                  get_isolated_margin_pairs(resp))
        /\ UNCHANGED <<OPTIONS, now>>

SpotOrder ==
    \E quantity \in Quantities, order_type \in {LIMIT, MARKET},
       test \in BOOLEAN, kwargs \in Options,
       resp \in AckOrError :
        /\ Invoke("spot_order",
                  [symbol |-> BTCUSDT, side |-> BUY, quantity |-> quantity,
                   order_type |-> order_type, test |-> test, kwargs |-> kwargs],
                  resp,
                  spot_order(OPTIONS, BTCUSDT, BUY, quantity, order_type, test,
                             kwargs, now, resp))
        /\ UNCHANGED <<OPTIONS, now>>

MarginBorrow ==
    \E isolated \in BOOLEAN, asset \in Assets,
       resp \in AckOrError :
        /\ Invoke("margin_borrow",
                  [symbol |-> BTCUSDT, quantity |-> PyInt(5),
                   isolated |-> isolated, asset |-> asset], resp,
                  margin_borrow(OPTIONS, BTCUSDT, PyInt(5), isolated, asset,
                                now, resp))
        /\ UNCHANGED <<OPTIONS, now>>

MarginRepay ==
    \E isolated \in BOOLEAN, asset \in Assets,
       resp \in AckOrError :
        /\ Invoke("margin_repay",
                  [symbol |-> BTCUSDT, quantity |-> PyInt(5),
                   isolated |-> isolated, asset |-> asset], resp,
                  margin_repay(OPTIONS, BTCUSDT, PyInt(5), isolated, asset,
                               now, resp))
        /\ UNCHANGED <<OPTIONS, now>>

MarginOrder ==
    \E isolated \in BOOLEAN, kwargs \in Options,
       resp \in AckOrError :
        /\ Invoke("margin_order",
                  [symbol |-> BTCUSDT, side |-> SELL,
                   quantity |-> PyFloat(FALSE, 1, 1), order_type |-> LIMIT,
                   isolated |-> isolated, kwargs |-> kwargs], resp,
                  margin_order(OPTIONS, BTCUSDT, SELL, PyFloat(FALSE, 1, 1),
                               LIMIT, isolated, kwargs, now, resp))
        /\ UNCHANGED <<OPTIONS, now>>

OrderStatus ==
    \E kwargs \in Options, resp \in OrderResponses :
        /\ Invoke("order_status", [symbol |-> BTCUSDT, kwargs |-> kwargs], resp,
                  order_status(OPTIONS, BTCUSDT, kwargs, now, resp))
        /\ UNCHANGED <<OPTIONS, now>>

Cancel ==
    \E kwargs \in Options, resp \in OrderResponses :
        /\ Invoke("cancel", [symbol |-> BTCUSDT, kwargs |-> kwargs], resp,
                  cancel(OPTIONS, BTCUSDT, kwargs, now, resp))
        /\ UNCHANGED <<OPTIONS, now>>

OpenOrders ==
    \E kwargs \in Options, resp \in OrderListResponses :
        /\ Invoke("open_orders", [symbol |-> BTCUSDT, kwargs |-> kwargs], resp,
                  open_orders(OPTIONS, BTCUSDT, kwargs, now, resp))
        /\ UNCHANGED <<OPTIONS, now>>

AllOrders ==
    \E kwargs \in Options, resp \in OrderListResponses :
        /\ Invoke("all_orders", [symbol |-> BTCUSDT, kwargs |-> kwargs], resp,
                  all_orders(OPTIONS, BTCUSDT, kwargs, now, resp))
        /\ UNCHANGED <<OPTIONS, now>>

MyTrades ==
    \E kwargs \in Options, resp \in OrderListResponses :
        /\ Invoke("my_trades", [symbol |-> BTCUSDT, kwargs |-> kwargs], resp,
                  my_trades(OPTIONS, BTCUSDT, kwargs, now, resp))
        /\ UNCHANGED <<OPTIONS, now>>

Next ==
    \/ Tick
    \/ Set
    \/ Request
    \/ SignedRequest
    \/ FormatNumber
    \/ Prices
    \/ Tickers
    \/ Depth
    \/ Klines
    \/ Balances
    \/ MarginBalances
    \/ IsolatedBalances
    \/ GetCrossMarginPairs
    \/ ExchangeInfo
    \/ GetIsolatedMarginPairs
    \/ SpotOrder
    \/ MarginBorrow
    \/ MarginRepay
    \/ MarginOrder
    \/ OrderStatus
    \/ Cancel
    \/ OpenOrders
    \/ AllOrders
    \/ MyTrades

Spec == Init /\ [][Next]_vars

-----------------------------------------------------------------------------
(* Reading a request back, as the exchange does: the query of a URL, its   *)
(* fields, and their decoded names and values.                             *)

IndexOf(s, c) ==
    IF \E i \in 1..Len(s) : s[i] = c
    THEN CHOOSE i \in 1..Len(s) : s[i] = c /\ \A j \in 1..(i - 1) : s[j] # c
    ELSE 0

RECURSIVE Split(_, _)
Split(s, sep) ==
    LET i == IndexOf(s, sep)
    IN IF i = 0 THEN <<s>>
       ELSE <<SubSeq(s, 1, i - 1)>> \o Split(SubSeq(s, i + 1, Len(s)), sep)

QueryOf(url) ==
    IF IndexOf(url, "?") = 0 THEN <<>>
    ELSE SubSeq(url, IndexOf(url, "?") + 1, Len(url))

Chr(n) == Ascii[n - 31]
HexVal(c) == (CHOOSE i \in 1..16 : HexDigit[i] = c) - 1

RECURSIVE Unquote(_)
Unquote(s) ==
    IF s = <<>> THEN <<>>
    ELSE IF s[1] = "+" THEN <<" ">> \o Unquote(Tail(s))
    ELSE IF s[1] = "%"
    THEN <<Chr(16 * HexVal(s[2]) + HexVal(s[3]))>> \o Unquote(SubSeq(s, 4, Len(s)))
    ELSE <<s[1]>> \o Unquote(Tail(s))

FieldName(f) ==
    IF IndexOf(f, "=") = 0 THEN f ELSE SubSeq(f, 1, IndexOf(f, "=") - 1)
FieldValue(f) ==
    IF IndexOf(f, "=") = 0 THEN <<>> ELSE SubSeq(f, IndexOf(f, "=") + 1, Len(f))

\* s occurs in t as a run of consecutive characters.
Occurs(s, t) ==
    \E i \in 1..(Len(t) - Len(s) + 1) : SubSeq(t, i, i + Len(s) - 1) = s

T_timestamp == <<"t", "i", "m", "e", "s", "t", "a", "m", "p">>
T_signature == <<"s", "i", "g", "n", "a", "t", "u", "r", "e">>
T_apikey_header == <<"X", "-", "M", "B", "X", "-", "A", "P", "I", "K", "E", "Y">>

\* The most recent invocation reached signed_request / request.
SignedCall == Len(dispatch) = 1 /\ dispatch[1].fn = "signed_request"
PublicCall == Len(dispatch) = 1 /\ dispatch[1].fn = "request"
\* ... and signed_request sent its request.
SignedSent == SignedCall /\ Len(http) = 1

\* The fields of the query that was sent, and those that come before the
\* timestamp and the signature (an empty mapping leaves one empty field).
SentFields == Split(QueryOf(http[1].url), "&")
SentParamFields ==
    SelectSeq(SubSeq(SentFields, 1, Len(SentFields) - 2), LAMBDA f : f # <<>>)
\* The sent query without its last field and the "&" before it.
SentMessage ==
    LET q == QueryOf(http[1].url)
    IN SubSeq(q, 1, Len(q) - Len(Last(SentFields)) - 1)

CredentialsStored == {"apiKey", "secret"} \subseteq DOMAIN OPTIONS

SignedOps ==
    {"signed_request", "balances", "margin_balances", "isolated_balances",
     "get_cross_margin_pairs", "spot_order", "margin_borrow", "margin_repay",
     "margin_order", "order_status", "cancel", "open_orders", "all_orders",
     "my_trades"}

\* Two parameter sequences are the same mapping.
SameMapping(m1, m2) ==
    {m1[i] : i \in 1..Len(m1)} = {m2[i] : i \in 1..Len(m2)}

-----------------------------------------------------------------------------
(* C1.  A signed operation called while OPTIONS lacks the key or the       *)
(* secret ends with ValueError("Api key and secret must be set") and has   *)
(* called requests.request not once.                                      *)
C1_NoRequestWithoutCredentials ==
    (call.op \in SignedOps /\ ~CredentialsStored) =>
        /\ http = <<>>
        /\ result
             = Raise("ValueError", <<"Api key and secret must be set">>)

\* spot_order was called before set and was refused.
C1_Witness ==
    /\ call.op = "spot_order"
    /\ OPTIONS = EmptyDict
    /\ SignedCall
    /\ result.kind = "raise"

-----------------------------------------------------------------------------
(* C2.  In a signed request the fields before the timestamp are the        *)
(* parameters, one field per key of the mapping, the key of rank r in      *)
(* code point order in place r with its own value; and every other         *)
(* insertion order of the same mapping gives the same text to sign.        *)
C2_SortedQuery ==
    SignedSent =>
        LET params == dispatch[1].params
            Rank(k) ==
                1 + Cardinality({j \in 1..Len(params) : StrLess(params[j][1], k)})
        IN /\ Len(SentParamFields) = Len(params)
           /\ \A i \in 1..Len(params) :
                /\ Rank(params[i][1]) <= Len(SentParamFields)
                /\ Unquote(FieldName(SentParamFields[Rank(params[i][1])]))
                     = params[i][1]
                /\ Unquote(FieldValue(SentParamFields[Rank(params[i][1])]))
                     = str(params[i][2])
           /\ \A m \in AllMappings :
                SameMapping(m, params) =>
                    SignedMessage(m, dispatch[1].ts) = SentMessage

\* signed_request sent a mapping of two entries that was built in an order
\* that is not the sorted one, with a value that needs quoting.
C2_Witness ==
    /\ SignedSent
    /\ call.op = "signed_request"
    /\ Len(dispatch[1].params) = 2
    /\ StrLess(dispatch[1].params[2][1], dispatch[1].params[1][1])
    /\ \E i \in 1..2 : dispatch[1].params[i][1] = <<"b">>

-----------------------------------------------------------------------------
(* C3.  In a signed request the last field is signature=<digest>, the one  *)
(* before it is timestamp=<the time read>, and the digest is the           *)
(* HMAC-SHA256, keyed by the stored secret, of the sent query without      *)
(* "&signature=<digest>"; the same secret, mapping and timestamp give the  *)
(* same digest whatever the method, the path and the insertion order.      *)
C3_SignatureCoversQuery ==
    SignedSent =>
        LET n == Len(SentFields)
            digest == FieldValue(SentFields[n])
        IN /\ n >= 3
           /\ FieldName(SentFields[n]) = T_signature
           /\ FieldName(SentFields[n - 1]) = T_timestamp
           /\ FieldValue(SentFields[n - 1]) = NatStr(dispatch[1].ts)
           /\ digest = hexdigest(OPTIONS["secret"], SentMessage)
           /\ \A mp \in DirectCalls, m \in AllMappings :
                SameMapping(m, dispatch[1].params) =>
                    Last(signed_request(OPTIONS, mp[1], mp[2], m,
                                        dispatch[1].ts, call.resp).http[1].url)
                        = digest[1]

\* A signed request of an empty mapping went out under the second secret.
C3_Witness ==
    /\ SignedSent
    /\ call.op = "signed_request"
    /\ dispatch[1].params = <<>>
    /\ OPTIONS["secret"] = <<"s", "2">>

-----------------------------------------------------------------------------
(* C4.  A signed request has the one header X-MBX-APIKEY with the stored   *)
(* key, no field of its query carries the key, and apart from the digest   *)
(* the request is the same whatever the secret is, which occurs nowhere in *)
(* its URL or headers; a public request has no header, no query in its     *)
(* URL and no signature parameter.                                         *)
Redacted(req) == [req EXCEPT !.url = Front(req.url)]

C4_KeyInHeaderSecretNowhere ==
    /\ SignedSent =>
        /\ http[1].headers = << <<T_apikey_header, OPTIONS["apiKey"]>> >>
        /\ \A i \in 1..Len(SentFields) :
            /\ Unquote(FieldValue(SentFields[i])) # OPTIONS["apiKey"]
            /\ Unquote(FieldName(SentFields[i])) # T_apikey_header
        /\ ~Occurs(OPTIONS["secret"], Front(http[1].url))
        /\ \A i \in 1..Len(http[1].headers) :
            ~Occurs(OPTIONS["secret"], http[1].headers[i][2])
        /\ \A secret \in Secrets :
            Redacted(signed_request(DictSet(OPTIONS, "secret", secret),
                                    dispatch[1].method, dispatch[1].path,
                                    dispatch[1].params, dispatch[1].ts,
                                    call.resp).http[1])
                = Redacted(http[1])
    /\ PublicCall =>
        /\ Len(http) = 1
        /\ http[1].headers = <<>>
        /\ QueryOf(http[1].url) = <<>>
        /\ \A i \in 1..Len(http[1].params) :
            http[1].params[i][1] \notin {T_signature, T_apikey_header}
        /\ CredentialsStored =>
            /\ ~Occurs(OPTIONS["secret"], http[1].url)
            /\ ~Occurs(OPTIONS["apiKey"], http[1].url)

\* A signed request went out after the credentials had been replaced.
C4_Witness ==
    /\ SignedSent
    /\ OPTIONS["apiKey"] = <<"k", "2">>
    /\ Len(dispatch[1].params) > 0

-----------------------------------------------------------------------------
(* C5.  Only set() writes OPTIONS: a step of any other operation leaves    *)
(* the stored key and secret as they were, a store that holds both keeps   *)
(* holding both, and the mapping given to signed_request is after the      *)
(* call what it was before it.                                             *)
C5_OnlySetWritesCredentials ==
    [][ /\ call'.op # "set" => OPTIONS' = OPTIONS
        /\ CredentialsStored => CredentialsStored'
        /\ SignedCall' => after' = dispatch'[1].params ]_vars

\* A signed call with parameters got an error from the exchange, with the
\* credentials stored.
C5_Witness ==
    /\ SignedSent
    /\ Len(after) = 2
    /\ call.resp = Json(ErrorPayload)
    /\ CredentialsStored

-----------------------------------------------------------------------------
(* C6.  When the exchange answers with a JSON object that has a 'msg'      *)
(* field, request, signed_request and the wrappers that hand their result  *)
(* on return that object itself; balances, margin_balances and             *)
(* isolated_balances raise ValueError with the text of 'msg' in it, and no *)
(* other operation raises an error that carries that text.                 *)
DirectOps ==
    {"request", "signed_request", "spot_order", "margin_order",
     "margin_borrow", "margin_repay", "order_status", "cancel", "open_orders",
     "all_orders", "my_trades"}
BalanceOps == {"balances", "margin_balances", "isolated_balances"}

ErrorAnswered ==
    /\ Len(http) = 1
    /\ call.resp.kind = "json"
    /\ call.resp.data.type = "dict"
    /\ "msg" \in DOMAIN call.resp.data.d

CarriesMessage(res, msg) ==
    /\ res.kind = "raise"
    /\ \E i \in 1..Len(res.text) : res.text[i] = msg

C6_ErrorPayloadPassedThrough ==
    ErrorAnswered =>
        /\ call.op \in DirectOps => result = Return(call.resp.data)
        /\ call.op \in BalanceOps =>
            /\ result.kind = "raise"
            /\ result.error = "ValueError"
            /\ CarriesMessage(result, call.resp.data.d.msg)
        /\ CarriesMessage(result, call.resp.data.d.msg) => call.op \in BalanceOps

\* margin_balances got an error object and raised.
C6_Witness ==
    /\ ErrorAnswered
    /\ call.op = "margin_balances"
    /\ result.kind = "raise"

-----------------------------------------------------------------------------
(* C7.  An operation calls requests.request at most once: exactly once     *)
(* through request, and exactly once through signed_request when OPTIONS   *)
(* holds the key and the secret; when that one request fails in transport  *)
(* or its body is not JSON, the operation ends with that exception and     *)
(* returns no value.                                                       *)
C7_NoRetry ==
    /\ Len(dispatch) <= 1
    /\ Len(http) <= Len(dispatch)
    /\ PublicCall => Len(http) = 1
    /\ (SignedCall /\ CredentialsStored) => Len(http) = 1
    /\ (Len(http) >= 1 /\ call.resp.kind = "transport_error") =>
            result = Raise("ConnectionError", <<"">>)
    /\ (Len(http) >= 1 /\ call.resp.kind = "not_json") =>
            result = Raise("JSONDecodeError", <<"">>)

\* A public wrapper's one request failed in transport.
C7_Witness ==
    /\ call.op = "depth"
    /\ Len(http) = 1
    /\ call.resp = TransportFailure
    /\ result.kind = "raise"

-----------------------------------------------------------------------------
(* C8.  format_number of a finite float is a string with exactly 8 digits  *)
(* after the decimal point (1.0 gives "1.00000000"), of inf, -inf and nan  *)
(* it is "inf", "-inf" and "nan"; of an int it is its decimal numeral      *)
(* (5 gives "5") and of a string it is the same characters.                *)
IsDigit(c) == \E i \in 1..10 : DecDigit[i] = c
AllDigits(s) == s # <<>> /\ \A i \in 1..Len(s) : IsDigit(s[i])

\* [-]digits.dddddddd
EightDecimals(s) ==
    LET point == Len(s) - 8
        whole == IF s # <<>> /\ s[1] = "-"
                 THEN SubSeq(s, 2, point - 1) ELSE SubSeq(s, 1, point - 1)
    IN /\ point >= 2
       /\ s[point] = "."
       /\ AllDigits(SubSeq(s, point + 1, Len(s)))
       /\ AllDigits(whole)

RECURSIVE DigitsValue(_)
DigitsValue(s) ==
    IF s = <<>> THEN 0
    ELSE 10 * DigitsValue(Front(s))
            + ((CHOOSE i \in 1..10 : DecDigit[i] = Last(s)) - 1)

\* s is the decimal numeral of the integer i.
IsNumeralOf(s, i) ==
    LET digits == IF i < 0 THEN Tail(s) ELSE s
    IN /\ s # <<>>
       /\ i < 0 => s[1] = "-"
       /\ AllDigits(digits)
       /\ Len(digits) > 1 => digits[1] # "0"
       /\ DigitsValue(digits) = (IF i < 0 THEN -i ELSE i)

FormatNumberOfNonFloat ==
    /\ call.args.number.t = "str" => result.value = call.args.number.s
    /\ call.args.number.t = "int" =>
            IsNumeralOf(result.value, call.args.number.i)
    /\ call.args.number = PyInt(5) => result.value = <<"5">>

-----------------------------------------------------------------------------
(* C9.  prices(), answered with a list of objects with symbol and price,   *)
(* returns a mapping whose keys are exactly the symbols of the list, each  *)
(* mapped to the price of the last object with that symbol; it has sent    *)
(* one GET to /api/v1/ticker/allPrices with no header, no parameter and no *)
(* query, whether or not OPTIONS holds credentials.                        *)
C9_PricesBySymbol ==
    (call.op = "prices" /\ call.resp.kind = "json"
                        /\ call.resp.data.type = "list") =>
        LET rows == call.resp.data.items
        IN /\ result.kind = "return"
           /\ DOMAIN result.value = {rows[i].symbol : i \in 1..Len(rows)}
           /\ \A i \in 1..Len(rows) :
                (\A j \in (i + 1)..Len(rows) : rows[j].symbol # rows[i].symbol)
                    => result.value[rows[i].symbol] = rows[i].price
           /\ PublicCall
           /\ http = << [method |-> GET, url |-> ENDPOINT \o PathAllPrices,
                         params |-> <<>>, headers |-> <<>>] >>

\* Two rows of one symbol with different prices, and no credentials set.
C9_Witness ==
    /\ call.op = "prices"
    /\ OPTIONS = EmptyDict
    /\ call.resp.kind = "json"
    /\ call.resp.data.type = "list"
    /\ Len(call.resp.data.items) = 2
    /\ call.resp.data.items[1].symbol = call.resp.data.items[2].symbol
    /\ call.resp.data.items[1].price # call.resp.data.items[2].price
    /\ result.kind = "return"

-----------------------------------------------------------------------------
(* C10.  depth(symbol, **kwargs), answered with an object that has lists   *)
(* of [price, quantity] under bids and asks, returns exactly the keys bids *)
(* and asks; each is a mapping whose keys are the prices of its own list,  *)
(* each mapped to the quantity of the last level with that price; the      *)
(* request is one GET to /api/v1/depth with no header and with the symbol  *)
(* and the options, and nothing else, as its parameters.                   *)
SideOf(levels, book) ==
    /\ DOMAIN book = {levels[i][1] : i \in 1..Len(levels)}
    /\ \A i \in 1..Len(levels) :
        (\A j \in (i + 1)..Len(levels) : levels[j][1] # levels[i][1])
            => book[levels[i][1]] = levels[i][2]

C10_DepthBySide ==
    (call.op = "depth" /\ call.resp.kind = "json"
                       /\ call.resp.data.type = "dict"
                       /\ {"bids", "asks"} \subseteq DOMAIN call.resp.data.d) =>
        /\ result.kind = "return"
        /\ DOMAIN result.value = {"bids", "asks"}
        /\ SideOf(call.resp.data.d.bids, result.value.bids)
        /\ SideOf(call.resp.data.d.asks, result.value.asks)
        /\ PublicCall
        /\ Len(http) = 1
        /\ http[1].method = GET
        /\ http[1].url = ENDPOINT \o PathDepth
        /\ http[1].headers = <<>>
        /\ IsMapping(http[1].params)
        /\ {http[1].params[i] : i \in 1..Len(http[1].params)}
             = {<<K_symbol, PyStrVal(call.args.symbol)>>}
                 \cup {call.args.kwargs[i] : i \in 1..Len(call.args.kwargs)}

\* A book with a bid and an ask at one price and different quantities, asked
\* for with an option.
C10_Witness ==
    /\ call.op = "depth"
    /\ call.args.kwargs # <<>>
    /\ call.resp.kind = "json"
    /\ call.resp.data.type = "dict"
    /\ "bids" \in DOMAIN call.resp.data.d
    /\ call.resp.data.d.bids = << <<"2.0", "7">> >>
    /\ call.resp.data.d.asks = << <<"2.0", "9">> >>
    /\ result.kind = "return"
    /\ result.value.bids["2.0"] = "7"
    /\ result.value.asks["2.0"] = "9"

-----------------------------------------------------------------------------
(* C11.  Every request spot_order sends is a signed POST whose path is     *)
(* /api/v3/order/test when test is true and /api/v3/order when it is       *)
(* false, for either order type and with or without options; its query     *)
(* has one quantity field, with format_number(quantity) as its value, and  *)
(* a field for each option with the option's value.                        *)
PathOfUrl(url) ==
    IF IndexOf(url, "?") = 0 THEN url ELSE SubSeq(url, 1, IndexOf(url, "?") - 1)

FieldsNamed(fields, name) ==
    {i \in 1..Len(fields) : Unquote(FieldName(fields[i])) = name}

C11_SpotOrderPath ==
    call.op = "spot_order" =>
        /\ SignedCall
        /\ dispatch[1].method = POST
        /\ \A i \in 1..Len(http) :
            LET fields == Split(QueryOf(http[i].url), "&")
            IN /\ http[i].method = POST
               /\ call.args.test =>
                    /\ PathOfUrl(http[i].url) = ENDPOINT \o PathOrderTest
                    /\ PathOfUrl(http[i].url) # ENDPOINT \o PathOrder
               /\ ~call.args.test =>
                    PathOfUrl(http[i].url) = ENDPOINT \o PathOrder
               /\ FieldsNamed(fields, T_signature) # {}
               /\ Cardinality(FieldsNamed(fields, K_quantity)) = 1
               /\ \A q \in FieldsNamed(fields, K_quantity) :
                    /\ Unquote(FieldValue(fields[q]))
                         = format_number(call.args.quantity)
                    /\ call.args.quantity = PyFloat(FALSE, 1, 0) =>
                        FieldValue(fields[q])
                          = <<"1", ".", "0", "0", "0", "0", "0", "0", "0", "0">>
                    /\ call.args.quantity = PyInt(5) =>
                        FieldValue(fields[q]) = <<"5">>
               /\ \A k \in 1..Len(call.args.kwargs) :
                    \E f \in FieldsNamed(fields, call.args.kwargs[k][1]) :
                        Unquote(FieldValue(fields[f]))
                            = str(call.args.kwargs[k][2])

\* A dry-run MARKET order of 1.0 with an option was sent.
C11_Witness ==
    /\ call.op = "spot_order"
    /\ call.args.test
    /\ call.args.order_type = MARKET
    /\ call.args.quantity = PyFloat(FALSE, 1, 0)
    /\ call.args.kwargs # <<>>
    /\ SignedSent
    /\ PathOfUrl(http[1].url) = ENDPOINT \o PathOrderTest

====
